---- MODULE Spec2Model ----
(***************************************************************************)
(* QRyptoRAG (qr-video-rag): text documents are chunked, each chunk is     *)
(* rendered as one QR frame of an MP4, and a vector index maps the         *)
(* embedding of each chunk to its frame number.                            *)
(*                                                                         *)
(* Three specifications over one set of variables:                         *)
(*   SpecChunk  the encoder's constructor and the chunkText loop           *)
(*   SpecIndex  the VectorDatabase adapters (in-memory and file-backed)    *)
(*   Spec       the pipeline: addDocument, the MP4 files, the retriever    *)
(***************************************************************************)
EXTENDS Integers, Sequences, FiniteSets, TLC

(***************************************************************************)
(* Bounds of the model.                                                    *)
(***************************************************************************)
MaxTextLen == 4          \* SpecChunk: the longest text given to chunkText
MaxChunkSize == 3        \* SpecChunk: the largest chunkSize and chunkOverlap
MaxStore == 3            \* SpecIndex: the most entries the store holds
MaxBatch == 2            \* SpecIndex: the most entries of one upsert
MaxWriteFailures == 1    \* SpecIndex: the most writes of the file that fail
MaxAdds == 2             \* Spec: the most addDocument calls
MaxDocLen == 2           \* Spec: the longest document text
MaxPipeChunkSize == 2    \* Spec: the largest chunkSize
MaxPaths == 2            \* SpecRetriever: the most paths of one searchMultiple
MaxBatchFrames == 2      \* SpecRetriever: the most frames of one batchDecodeFrames
MaxCache == 2            \* Spec: the largest maxCacheSize
MaxEmbedTextLen == 2     \* SpecEmbedder: the longest text embedded
MaxEmbedCache == 2       \* SpecEmbedder: the largest maxCacheSize
MaxPending == 2          \* SpecEmbedder: the most embed calls in flight
MaxCalls == 2            \* SpecBuild: the number of addDocument calls
MaxClock == 2            \* SpecBuild: the last millisecond of the clock

(***************************************************************************)
(* Program constants.                                                      *)
(***************************************************************************)
DefaultChunkSize == 500
DefaultChunkOverlap == 50
DefaultVideoFps == 1
DefaultMaxCacheSize == 50
DefaultEmbedMaxCacheSize == 500

\* An option of the configuration object: {} when the caller leaves it out,
\* {v} when it is given.
None == {}
Some(v) == {v}

Alphabet == {"a", "b"}

Min(a, b) == IF a < b THEN a ELSE b
Max(a, b) == IF a > b THEN a ELSE b

RECURSIVE SeqsUpTo(_, _)
SeqsUpTo(S, n) ==
  IF n = 0 THEN {<<>>}
  ELSE LET shorter == SeqsUpTo(S, n - 1)
       IN  shorter \cup {Append(t, c) : t \in shorter, c \in S}

Texts == SeqsUpTo(Alphabet, MaxTextLen)

DocIds == {"d1", "d2"}
Paths == {"p1.mp4", "p2.mp4"}

VARIABLES
  config,     \* QRVideoStoreEncoder.config: chunkSize, chunkOverlap, videoFps
  ckPc,       \* chunkText: "idle", "loop" (inside the while), "returned"
  ckText,     \* chunkText: its argument
  ckI,        \* chunkText: the local i
  ckChunks,   \* chunkText: the local chunks
  backend,    \* which VectorDatabase adapter the index is: "memory" or "file"
  store,      \* the adapter's store: the sequence of index entries
  file,       \* file adapter: the entries last written to filePath, or NoFile
  writeFailures, \* how many writes of the file have failed so far
  ixOp,       \* the last call on the adapter, with the store it found
  ixResult,   \* what the last search on the adapter returned
  videos,     \* the MP4 file at each path: NoVideo, or its frames and frame rate
  add,        \* the addDocument call in progress: arguments, locals, position
  added,      \* how many addDocument calls have been made
  addsFailed, \* how many of them have thrown
  lastAdd,    \* how the last addDocument call ended
  maxCacheSize, \* QRVideoStoreRetriever.maxCacheSize
  frameCache, \* QRVideoStoreRetriever.frameCache, in insertion order
  used,       \* history: the cache keys read or written since the cache was
              \* last empty, the least recently used first (SpecRetriever)
  embedMaxCacheSize, \* createCachedEmbedder: maxCacheSize
  embedCache,        \* createCachedEmbedder: cache, in insertion order
  embedPending,      \* embed calls of the cached embedder that await the base embedder
  now,        \* Date.now(), in milliseconds
  scratch,    \* the temp_qr_frames_<ms> directories that exist, by their <ms>
  calls,      \* addDocument calls by number: where each is, and its tempDir
  inBatch     \* whether the calls are the documents of one addDocumentsBatch

chunkVars == <<ckPc, ckText, ckI, ckChunks>>
indexVars == <<backend, store, file, writeFailures, ixOp, ixResult>>
pipeVars == <<videos, add, added, addsFailed, lastAdd, maxCacheSize, frameCache, used>>
embedVars == <<embedMaxCacheSize, embedCache, embedPending>>
buildVars == <<now, scratch, calls, inBatch>>
vars == <<config, ckPc, ckText, ckI, ckChunks, backend, store, file, writeFailures,
          ixOp, ixResult, videos, add, added, addsFailed, lastAdd, maxCacheSize, frameCache,
          used, embedMaxCacheSize, embedCache, embedPending, now, scratch, calls, inBatch>>

(***************************************************************************)
(* String.prototype.substring: both arguments are clamped to [0, length]   *)
(* and swapped when start > end.                                           *)
(***************************************************************************)
Clamp(n, len) == Max(0, Min(n, len))

\* Variant that takes the character at end as well.
SubstringInclusive(text, start, end) ==
  LET s == Clamp(start, Len(text))
      e == Clamp(end + 1, Len(text))
  IN  SubSeq(text, Min(s, e) + 1, Max(s, e))

Substring(text, start, end) ==
  LET s == Clamp(start, Len(text))
      e == Clamp(end, Len(text))
  IN  SubSeq(text, Min(s, e) + 1, Max(s, e))

(***************************************************************************)
(* The constructor: every option the caller leaves out takes its default;  *)
(* no option is validated.                                                 *)
(***************************************************************************)
OrDefault(v, d) == IF v = None THEN d ELSE CHOOSE x \in v : TRUE

Constructor(opts) ==
  [chunkSize    |-> OrDefault(opts.chunkSize, DefaultChunkSize),
   chunkOverlap |-> OrDefault(opts.chunkOverlap, DefaultChunkOverlap),
   videoFps     |-> OrDefault(opts.videoFps, DefaultVideoFps)]

(***************************************************************************)
(* One iteration of the while loop of chunkText, on the locals             *)
(* st = [i, chunks].                                                       *)
(***************************************************************************)
ChunkLoopBodySkipOverlap(st, text, cfg) ==
  LET end == Min(st.i + cfg.chunkSize, Len(text))
  IN  [i      |-> st.i + cfg.chunkSize,
       chunks |-> Append(st.chunks,
                         [text          |-> Substring(text, st.i, end),
                          index         |-> Len(st.chunks),
                          startPosition |-> st.i,
                          endPosition   |-> end])]

ChunkLoopBody(st, text, cfg) ==
  LET end == Min(st.i + cfg.chunkSize, Len(text))
  IN  [i      |-> st.i + cfg.chunkSize - cfg.chunkOverlap,
       chunks |-> Append(st.chunks,
                         [text          |-> Substring(text, st.i, end),
                          index         |-> Len(st.chunks),
                          startPosition |-> st.i,
                          endPosition   |-> end])]

\* Variant that runs the loop once more, at i = text.length.
ChunkLoopCondInclusive(st, text) == st.i <= Len(text)

ChunkLoopCond(st, text) == st.i < Len(text)

(***************************************************************************)
(* chunkText as a function, for the configurations on which its loop       *)
(* ends (a positive stride).                                               *)
(***************************************************************************)
RECURSIVE ChunkLoop(_, _, _)
ChunkLoop(st, text, cfg) ==
  IF ChunkLoopCond(st, text)
  THEN ChunkLoop(ChunkLoopBody(st, text, cfg), text, cfg)
  ELSE st.chunks

ChunkTextTerminates(text, cfg) ==
  text = <<>> \/ cfg.chunkSize - cfg.chunkOverlap > 0

ChunkText(text, cfg) == ChunkLoop([i |-> 0, chunks |-> <<>>], text, cfg)

(***************************************************************************)
(* The VectorDatabase adapters.                                            *)
(*                                                                         *)
(* An index entry is [chunkText, embedding, frameNumber, documentId]; a    *)
(* search result is an entry with its similarity added.  Embeddings are    *)
(* vectors of small integers.                                              *)
(***************************************************************************)
RECURSIVE Dot(_, _)
Dot(a, b) ==
  IF a = <<>> THEN 0 ELSE Head(a) * Head(b) + Dot(Tail(a), Tail(b))

Sgn(x) == IF x > 0 THEN 1 ELSE IF x < 0 THEN -1 ELSE 0

(***************************************************************************)
(* cosineSimilarity(a, b), for vectors of one length.  The cosine          *)
(* c = dot / (|a| |b|) is kept exactly, as the fraction num / den that     *)
(* equals sgn(c) * c^2: x |-> sgn(x) * x^2 is strictly increasing, so the  *)
(* order and the equality of similarities are those of the cosines.        *)
(* A zero magnitude gives 0.                                               *)
(***************************************************************************)
CosineSimilarity(a, b) ==
  LET dotProduct == Dot(a, b)
      magA == Dot(a, a)
      magB == Dot(b, b)
  IN  IF magA = 0 \/ magB = 0
      THEN [num |-> 0, den |-> 1]
      ELSE [num |-> Sgn(dotProduct) * dotProduct * dotProduct, den |-> magA * magB]

SimLess(x, y) == x.num * y.den < y.num * x.den

\* cosineSimilarity throws 'Vectors must have same length'.
Throws(embedding, entries) ==
  \E i \in 1..Len(entries) : Len(entries[i].embedding) # Len(embedding)

WithSimilarity(entry, embedding) ==
  [chunkText   |-> entry.chunkText,
   embedding   |-> entry.embedding,
   frameNumber |-> entry.frameNumber,
   documentId  |-> entry.documentId,
   similarity  |-> CosineSimilarity(embedding, entry.embedding)]

(***************************************************************************)
(* results.sort((a, b) => b.similarity - a.similarity): Array.prototype    *)
(* .sort is stable, so entries of equal similarity keep their order.       *)
(***************************************************************************)
RECURSIVE InsertAscending(_, _)
InsertAscending(sorted, r) ==
  IF sorted = <<>> THEN <<r>>
  ELSE IF SimLess(r.similarity, Head(sorted).similarity)
       THEN <<r>> \o sorted
       ELSE <<Head(sorted)>> \o InsertAscending(Tail(sorted), r)

RECURSIVE InsertBySimilarity(_, _)
InsertBySimilarity(sorted, r) ==
  IF sorted = <<>> THEN <<r>>
  ELSE IF SimLess(Head(sorted).similarity, r.similarity)
       THEN <<r>> \o sorted
       ELSE <<Head(sorted)>> \o InsertBySimilarity(Tail(sorted), r)

RECURSIVE SortBySimilarity(_)
SortBySimilarity(results) ==
  IF results = <<>> THEN <<>>
  ELSE InsertBySimilarity(SortBySimilarity(SubSeq(results, 1, Len(results) - 1)),
                          results[Len(results)])

\* Variant that keeps the last limit results.
SliceFromEnd(results, limit) ==
  SubSeq(results, Len(results) - Min(limit, Len(results)) + 1, Len(results))

\* Array.prototype.slice(0, limit), for limit >= 0.
Slice(results, limit) == SubSeq(results, 1, Min(limit, Len(results)))

\* How a call ends: it returns a value, or it throws.
Returned(v) == [thrown |-> FALSE, value |-> v]
Thrown == [thrown |-> TRUE]

(***************************************************************************)
(* search(embedding, limit), the same code in both adapters.               *)
(***************************************************************************)
SearchEntries(entries, embedding, limit) ==
  IF Len(entries) = 0 THEN Returned(<<>>)
  ELSE IF Throws(embedding, entries) THEN Thrown
  ELSE Returned(Slice(SortBySimilarity([i \in 1..Len(entries) |->
                                           WithSimilarity(entries[i], embedding)]),
                      limit))

(***************************************************************************)
(* upsert(entries): store.push(...entries).                                *)
(***************************************************************************)
\* Variant that overwrites the stored entries of a (documentId, frameNumber)
\* the batch brings again, and appends the batch.
UpsertReplacing(entries, batch) ==
  SelectSeq(entries,
            LAMBDA e : \A i \in 1..Len(batch) :
                         ~(batch[i].documentId = e.documentId
                             /\ batch[i].frameNumber = e.frameNumber)) \o batch

UpsertEntries(entries, batch) == entries \o batch

(***************************************************************************)
(* delete(documentId) of the in-memory adapter: the indices of the         *)
(* document's entries are collected from the last to the first, then each  *)
(* is spliced out.                                                         *)
(***************************************************************************)
RECURSIVE IndicesFromFirst(_, _, _)
IndicesFromFirst(entries, documentId, i) ==
  IF i >= Len(entries) THEN <<>>
  ELSE (IF entries[i + 1].documentId = documentId THEN <<i>> ELSE <<>>)
       \o IndicesFromFirst(entries, documentId, i + 1)

RECURSIVE IndicesToRemove(_, _, _)
IndicesToRemove(entries, documentId, i) ==
  IF i < 0 THEN <<>>
  ELSE (IF entries[i + 1].documentId = documentId THEN <<i>> ELSE <<>>)
       \o IndicesToRemove(entries, documentId, i - 1)

\* Array.prototype.splice(index, 1), for index >= 0.
Splice(entries, index) ==
  SubSeq(entries, 1, Min(index, Len(entries)))
    \o SubSeq(entries, index + 2, Len(entries))

RECURSIVE SpliceEach(_, _)
SpliceEach(entries, indices) ==
  IF indices = <<>> THEN entries
  ELSE SpliceEach(Splice(entries, Head(indices)), Tail(indices))

DeleteFirstToLast(entries, documentId) ==
  SpliceEach(entries, IndicesFromFirst(entries, documentId, 0))

MemoryDelete(entries, documentId) ==
  SpliceEach(entries, IndicesToRemove(entries, documentId, Len(entries) - 1))

(***************************************************************************)
(* delete(documentId) of the file adapter: store.filter(...).              *)
(***************************************************************************)
FileDelete(entries, documentId) ==
  SelectSeq(entries, LAMBDA e : e.documentId # documentId)

(***************************************************************************)
(* save() of the file adapter: JSON.stringify(store) is written to the     *)
(* file; a failure of the write is logged and swallowed, and the file      *)
(* keeps what it held.                                                     *)
(***************************************************************************)
NoFile == [exists |-> FALSE]

JsonStringify(entries) ==
  [i \in 1..Len(entries) |->
     [chunkText   |-> entries[i].chunkText,
      embedding   |-> entries[i].embedding,
      frameNumber |-> entries[i].frameNumber,
      documentId  |-> entries[i].documentId]]

\* JSON.parse of the document save() writes.
JsonParse(json) ==
  [i \in 1..Len(json) |->
     [chunkText   |-> json[i].chunkText,
      embedding   |-> json[i].embedding,
      frameNumber |-> json[i].frameNumber,
      documentId  |-> json[i].documentId]]

\* createFileAdapter(filePath): the store a new adapter starts with, the
\* parsed file when there is one, else the empty list.
Load(f) == IF f = NoFile THEN <<>> ELSE JsonParse(f.json)

Save(entries, writeOk) ==
  IF writeOk THEN [exists |-> TRUE, json |-> JsonStringify(entries)] ELSE file

\* The trailing save() of a call of the file adapter; the in-memory adapter
\* has no file.  At most MaxWriteFailures writes fail.
SaveStep(entries) ==
  IF backend = "file"
  THEN \E writeOk \in BOOLEAN :
         /\ ~writeOk => writeFailures < MaxWriteFailures
         /\ file' = Save(entries, writeOk)
         /\ writeFailures' = writeFailures + (IF writeOk THEN 0 ELSE 1)
  ELSE UNCHANGED <<file, writeFailures>>

(***************************************************************************)
(* The embedder is the caller's: embed(text) is any deterministic function *)
(* from texts to vectors of one length.  Here it counts the occurrences of *)
(* each character of the alphabet.                                         *)
(***************************************************************************)
RECURSIVE Count(_, _)
Count(text, c) ==
  IF text = <<>> THEN 0
  ELSE (IF Head(text) = c THEN 1 ELSE 0) + Count(Tail(text), c)

Embed(text) == <<Count(text, "a"), Count(text, "b")>>

\* embed(text) may reject; here it rejects a text that holds a character
\* outside the alphabet.
EmbedRejects(text) == \E i \in 1..Len(text) : text[i] \notin Alphabet

(***************************************************************************)
(* addDocument.  Its awaited steps run in the order of AddDocumentSteps:   *)
(*   encode      chunkText, then generateQrCode and embed for every chunk  *)
(*   buildVideo  the frames are written to outputVideoPath by ffmpeg       *)
(*   upsert      database.upsert(indexEntries)                             *)
(* A QR frame is modelled by the payload it encodes.                       *)
(***************************************************************************)
AddDocumentStepsIndexFirst == <<"encode", "upsert", "buildVideo">>

AddDocumentSteps == <<"encode", "buildVideo", "upsert">>

NoAdd == [at |-> 0]
NoVideo == [exists |-> FALSE]
Garbage == <<"garbage">>

QrCodeBuffers(chunks) == [i \in 1..Len(chunks) |-> chunks[i].text]

IndexEntries(chunks, documentId) ==
  [i \in 1..Len(chunks) |->
     [chunkText   |-> chunks[i].text,
      embedding   |-> Embed(chunks[i].text),
      frameNumber |-> chunks[i].index,
      documentId  |-> documentId]]

\* The call ends: it returns after its last step, or throws at a step.
AddEnds(ok) ==
  /\ add' = NoAdd
  /\ addsFailed' = addsFailed + (IF ok THEN 0 ELSE 1)
  /\ lastAdd' = [op |-> "addDocument", documentId |-> add.documentId,
                 text |-> add.text, ok |-> ok,
                 at |-> AddDocumentSteps[add.at]]

AddAdvances(next) ==
  IF add.at = Len(AddDocumentSteps)
  THEN AddEnds(TRUE)
  ELSE /\ add' = [next EXCEPT !.at = add.at + 1]
       /\ UNCHANGED <<lastAdd, addsFailed>>

\* The call, up to its first await.  With a stride <= 0 and a non-empty
\* text the loop of chunkText never ends and the call never returns.
AddDocument(documentId, text, path) ==
  /\ add = NoAdd
  /\ added < MaxAdds
  /\ added' = added + 1
  /\ add' = [at |-> 1, documentId |-> documentId, text |-> text, path |-> path,
             chunks |-> <<>>, frames |-> <<>>, entries |-> <<>>, muxed |-> FALSE,
             before |-> store, hung |-> ~ChunkTextTerminates(text, config)]
  /\ UNCHANGED <<config, chunkVars, indexVars, videos, addsFailed, lastAdd,
                 maxCacheSize, frameCache, used, embedVars, buildVars>>

\* Variant that upserts the entry of each chunk as soon as it is embedded:
\* when a later chunk fails, the entries of the chunks before it are stored.
AddEncodeIndexingEachChunk ==
  /\ add.at > 0 /\ ~add.hung
  /\ AddDocumentSteps[add.at] = "encode"
  /\ LET chunks == ChunkText(add.text, config)
     IN  \E ok \in BOOLEAN :
           IF ok
           THEN /\ AddAdvances([add EXCEPT !.chunks = chunks,
                                           !.frames = QrCodeBuffers(chunks),
                                           !.entries = IndexEntries(chunks, add.documentId)])
                /\ store' = store
           ELSE /\ Len(chunks) > 0
                /\ AddEnds(FALSE)
                /\ store' = UpsertEntries(store,
                                          SubSeq(IndexEntries(chunks, add.documentId),
                                                 1, Len(chunks) - 1))
  /\ UNCHANGED <<config, chunkVars, backend, file, writeFailures, ixOp,
                 ixResult, videos, added, maxCacheSize, frameCache, used,
                 embedVars, buildVars>>

\* Steps 1 to 3: the chunks, and a QR frame and an index entry per chunk.
\* generateQrCode or embed may reject, and then addDocument throws.
AddEncode ==
  /\ add.at > 0 /\ ~add.hung
  /\ AddDocumentSteps[add.at] = "encode"
  /\ LET chunks == ChunkText(add.text, config)
     IN  \E ok \in BOOLEAN :
           IF ok
           THEN AddAdvances([add EXCEPT !.chunks = chunks,
                                        !.frames = QrCodeBuffers(chunks),
                                        !.entries = IndexEntries(chunks, add.documentId)])
           ELSE Len(chunks) > 0 /\ AddEnds(FALSE)
  /\ UNCHANGED <<config, chunkVars, indexVars, videos, added, maxCacheSize,
                 frameCache, used, embedVars, buildVars>>

\* Step 4: buildVideo.  ffmpeg overwrites the file at outputVideoPath with
\* one frame per image, at videoFps; when it fails, as it does when there
\* is no image to read, the call throws and the path holds what it held or,
\* when ffmpeg had opened its output, an output without a decodable frame
\* (encodeVideo rejects and nothing removes the file).
AddBuildVideo ==
  /\ add.at > 0 /\ ~add.hung
  /\ AddDocumentSteps[add.at] = "buildVideo"
  /\ \/ /\ add.frames # <<>>
        /\ videos' = [videos EXCEPT ![add.path] =
                        [exists |-> TRUE, frames |-> add.frames, fps |-> config.videoFps]]
        /\ AddAdvances([add EXCEPT !.muxed = TRUE])
     \/ /\ \E partial \in {FALSE, add.frames # <<>>} :
             videos' = IF partial
                       THEN [videos EXCEPT ![add.path] =
                               [exists |-> TRUE, frames |-> <<>>, fps |-> config.videoFps]]
                       ELSE videos
        /\ AddEnds(FALSE)
  /\ UNCHANGED <<config, chunkVars, indexVars, added, maxCacheSize, frameCache,
                 used, embedVars, buildVars>>

\* Step 5: the index entries are upserted into the database.
AddUpsert ==
  /\ add.at > 0 /\ ~add.hung
  /\ AddDocumentSteps[add.at] = "upsert"
  /\ store' = UpsertEntries(store, add.entries)
  /\ AddAdvances(add)
  /\ UNCHANGED <<config, chunkVars, backend, file, writeFailures, ixOp,
                 ixResult, videos, added, maxCacheSize, frameCache, used,
                 embedVars, buildVars>>

(***************************************************************************)
(* The retriever.                                                          *)
(***************************************************************************)
Null == <<"null">>

CacheKey(videoPath, frameNumber) == <<videoPath, frameNumber>>

\* Map.prototype.get: the value of the key, or undefined (Null here).
CacheGet(cache, key) ==
  IF \E i \in 1..Len(cache) : cache[i].key = key
  THEN cache[CHOOSE i \in 1..Len(cache) : cache[i].key = key].value
  ELSE Null

\* Map.prototype.set: a new key goes last, a known key keeps its place.
CacheSet(cache, key, value) ==
  IF \E i \in 1..Len(cache) : cache[i].key = key
  THEN [i \in 1..Len(cache) |->
          IF cache[i].key = key THEN [key |-> key, value |-> value] ELSE cache[i]]
  ELSE Append(cache, [key |-> key, value |-> value])

\* addToCache: when the cache is full its first key, if there is one, is
\* deleted; then the entry is set.
AddToCache(cache, key, value) ==
  CacheSet(IF Len(cache) >= maxCacheSize /\ Len(cache) > 0 THEN Tail(cache) ELSE cache,
           key, value)

\* extractFrameAsBuffer, then decodeQrCodeFromBuffer: ffmpeg seeks the input
\* to frameNumber seconds, that is to frame frameNumber * fps, and emits one
\* frame, or nothing past the end of the video; jsQR gives the payload of a
\* readable frame.  Null when either step gives nothing.
\* Variant that hands on whatever bytes the frame holds.
DecodedFrameUnchecked(video, frameNumber) ==
  LET at == frameNumber * video.fps
  IN  IF at >= Len(video.frames) THEN Null ELSE video.frames[at + 1]

DecodedFrame(video, frameNumber) ==
  LET at == frameNumber * video.fps
  IN  IF at >= Len(video.frames) THEN Null
      ELSE IF video.frames[at + 1] = Garbage THEN Null
      ELSE video.frames[at + 1]

\* The loop of search over the hits, on the locals st = [cache, results];
\* thrown is set when extractFrameAsBuffer finds no file at videoPath, and
\* extracted lists the frame numbers extractFrameAsBuffer was called with.
RECURSIVE SearchLoop(_, _, _)
SearchLoop(hits, videoPath, st) ==
  IF hits = <<>> THEN st
  ELSE LET chunk == Head(hits)
           cacheKey == CacheKey(videoPath, chunk.frameNumber)
           cached == CacheGet(st.cache, cacheKey)
           decodedText == IF cached # Null THEN cached
                          ELSE IF videos[videoPath] = NoVideo THEN Null
                          ELSE DecodedFrame(videos[videoPath], chunk.frameNumber)
           found == [text        |-> decodedText,
                     similarity  |-> chunk.similarity,
                     frameNumber |-> chunk.frameNumber,
                     documentId  |-> chunk.documentId]
           tried == IF cached # Null THEN st.extracted
                    ELSE Append(st.extracted, chunk.frameNumber)
       IN  IF cached = Null /\ videos[videoPath] = NoVideo
           THEN [st EXCEPT !.thrown = TRUE, !.extracted = tried]
           ELSE IF decodedText = Null
           THEN SearchLoop(Tail(hits), videoPath, [st EXCEPT !.extracted = tried])
           ELSE SearchLoop(Tail(hits), videoPath,
                           [cache     |-> IF cached # Null THEN st.cache
                                          ELSE AddToCache(st.cache, cacheKey, decodedText),
                            results   |-> Append(st.results, found),
                            extracted |-> tried,
                            thrown    |-> FALSE])

\* Variant that answers a failed embedding or index search with no hit.
RetrieveChunksSwallowing(query, matchCount) ==
  IF EmbedRejects(query) \/ Throws(Embed(query), store)
  THEN Returned(<<>>)
  ELSE SearchEntries(store, Embed(query), matchCount)

\* retrieveChunks: the query is embedded and the database searched; an
\* error of either is the error of retrieveChunks.
RetrieveChunks(query, matchCount) ==
  IF EmbedRejects(query) THEN Thrown
  ELSE SearchEntries(store, Embed(query), matchCount)

\* search(query, videoPath, matchCount) run on a given cache: what it
\* returns or throws, and the cache it leaves.
SearchFrom(cache, query, videoPath, matchCount) ==
  LET chunks == RetrieveChunks(query, matchCount)
      st == IF chunks.thrown
            THEN [cache |-> cache, results |-> <<>>, extracted |-> <<>>, thrown |-> TRUE]
            ELSE SearchLoop(chunks.value, videoPath,
                            [cache |-> cache, results |-> <<>>, extracted |-> <<>>,
                             thrown |-> FALSE])
  IN  [cache     |-> st.cache,
       outcome   |-> IF st.thrown THEN Thrown ELSE Returned(st.results),
       extracted |-> st.extracted,
       touched   |-> [i \in 1..Len(st.results) |->
                        CacheKey(videoPath, st.results[i].frameNumber)]]

SearchOutcome(query, videoPath, matchCount) ==
  SearchFrom(frameCache, query, videoPath, matchCount)

Search(query, videoPath, matchCount) ==
  /\ frameCache' = SearchOutcome(query, videoPath, matchCount).cache
  /\ UNCHANGED <<config, chunkVars, indexVars, videos, add, added, addsFailed,
                 lastAdd, maxCacheSize, embedVars, buildVars>>

\* getFrameByNumber(videoPath, frameNumber): the cached text, else the text
\* decoded from the frame (cached when there is one), else null.
FrameFrom(cache, videoPath, frameNumber) ==
  LET cacheKey == CacheKey(videoPath, frameNumber)
      cached == CacheGet(cache, cacheKey)
      decodedText == IF videos[videoPath] = NoVideo THEN Null
                     ELSE DecodedFrame(videos[videoPath], frameNumber)
  IN  IF cached # Null
      THEN [cache |-> cache, outcome |-> Returned(cached), touched |-> <<cacheKey>>]
      ELSE IF videos[videoPath] = NoVideo
      THEN [cache |-> cache, outcome |-> Thrown, touched |-> <<>>]
      ELSE [cache   |-> IF decodedText # Null
                        THEN AddToCache(cache, cacheKey, decodedText)
                        ELSE cache,
            outcome |-> Returned(decodedText),
            touched |-> IF decodedText # Null THEN <<cacheKey>> ELSE <<>>]

FrameOutcome(videoPath, frameNumber) == FrameFrom(frameCache, videoPath, frameNumber)

GetFrameByNumber(videoPath, frameNumber) ==
  /\ frameCache' = FrameOutcome(videoPath, frameNumber).cache
  /\ UNCHANGED <<config, chunkVars, indexVars, videos, add, added, addsFailed,
                 lastAdd, maxCacheSize, embedVars, buildVars>>

ClearCache ==
  /\ frameCache' = <<>>
  /\ UNCHANGED <<config, chunkVars, indexVars, videos, add, added, addsFailed,
                 lastAdd, maxCacheSize, embedVars, buildVars>>

\* searchMultiple(query, videoPaths, matchCountPerVideo): a path without a
\* file is skipped; search runs on the others in order, on the cache the
\* one before left; the results are concatenated.
RECURSIVE SearchMultipleLoop(_, _, _, _)
SearchMultipleLoop(videoPaths, query, matchCountPerVideo, st) ==
  IF videoPaths = <<>> THEN st
  ELSE LET videoPath == Head(videoPaths)
           found == SearchFrom(st.cache, query, videoPath, matchCountPerVideo)
       IN  IF videos[videoPath] = NoVideo
           THEN SearchMultipleLoop(Tail(videoPaths), query, matchCountPerVideo, st)
           ELSE IF found.outcome.thrown
           THEN [st EXCEPT !.cache = found.cache,
                           !.touched = st.touched \o found.touched,
                           !.thrown = TRUE]
           ELSE SearchMultipleLoop(Tail(videoPaths), query, matchCountPerVideo,
                                   [cache      |-> found.cache,
                                    allResults |-> st.allResults \o found.outcome.value,
                                    touched    |-> st.touched \o found.touched,
                                    thrown     |-> FALSE])

\* Then allResults.sort((a, b) => b.similarity - a.similarity).
SearchMultipleFrom(cache, query, videoPaths, matchCountPerVideo) ==
  LET st == SearchMultipleLoop(videoPaths, query, matchCountPerVideo,
                               [cache |-> cache, allResults |-> <<>>,
                                touched |-> <<>>, thrown |-> FALSE])
  IN  [cache   |-> st.cache,
       outcome |-> IF st.thrown THEN Thrown
                   ELSE Returned(SortBySimilarity(st.allResults)),
       touched |-> st.touched]

SearchMultipleOutcome(query, videoPaths, matchCountPerVideo) ==
  SearchMultipleFrom(frameCache, query, videoPaths, matchCountPerVideo)

SearchMultiple(query, videoPaths, matchCountPerVideo) ==
  /\ frameCache' = SearchMultipleOutcome(query, videoPaths, matchCountPerVideo).cache
  /\ UNCHANGED <<config, chunkVars, indexVars, videos, add, added, addsFailed,
                 lastAdd, maxCacheSize, embedVars, buildVars>>

\* batchDecodeFrames(videoPath, frameNumbers): getFrameByNumber for each
\* frame number in order; results is a Map from frame number to text.
RECURSIVE BatchDecodeLoop(_, _, _)
BatchDecodeLoop(frameNumbers, videoPath, st) ==
  IF frameNumbers = <<>> THEN st
  ELSE LET frameNumber == Head(frameNumbers)
           text == FrameFrom(st.cache, videoPath, frameNumber)
       IN  IF text.outcome.thrown
           THEN [st EXCEPT !.thrown = TRUE]
           ELSE BatchDecodeLoop(Tail(frameNumbers), videoPath,
                                [cache   |-> text.cache,
                                 results |-> IF text.outcome.value # Null
                                             THEN CacheSet(st.results, frameNumber,
                                                           text.outcome.value)
                                             ELSE st.results,
                                 touched |-> st.touched \o text.touched,
                                 thrown  |-> FALSE])

BatchDecodeOutcome(videoPath, frameNumbers) ==
  LET st == BatchDecodeLoop(frameNumbers, videoPath,
                            [cache |-> frameCache, results |-> <<>>,
                             touched |-> <<>>, thrown |-> FALSE])
  IN  [cache   |-> st.cache,
       outcome |-> IF st.thrown THEN Thrown ELSE Returned(st.results),
       touched |-> st.touched]

BatchDecodeFrames(videoPath, frameNumbers) ==
  /\ frameCache' = BatchDecodeOutcome(videoPath, frameNumbers).cache
  /\ UNCHANGED <<config, chunkVars, indexVars, videos, add, added, addsFailed,
                 lastAdd, maxCacheSize, embedVars, buildVars>>

GetCacheStats == [size |-> Len(frameCache), maxSize |-> maxCacheSize]

\* The history of uses: a key read or written becomes the most recently
\* used one.
Touch(u, key) == SelectSeq(u, LAMBDA k : k # key) \o <<key>>

RECURSIVE TouchEach(_, _)
TouchEach(u, keys) ==
  IF keys = <<>> THEN u ELSE TouchEach(Touch(u, Head(keys)), Tail(keys))

(***************************************************************************)
(* createCachedEmbedder(embedder, maxCacheSize): embed(text) returns the   *)
(* cached embedding of the text when the Map holds one; else it awaits the *)
(* base embedder and stores what it gave.  An embedding is an array, and   *)
(* every array is truthy, so "if (cached)" is the test that the key is in  *)
(* the Map.                                                                *)
(***************************************************************************)
CacheHas(cache, key) == \E i \in 1..Len(cache) : cache[i].key = key

\* "if (firstKey)": a string is truthy unless it is empty.
IsTruthy(text) == text # <<>>

\* The lines after the await: when the Map is full its first key is
\* deleted if it is truthy; then the embedding is set.
CachedEmbedStore(cache, max, text, embedding) ==
  CacheSet(IF Len(cache) >= max /\ Len(cache) > 0 /\ IsTruthy(cache[1].key)
           THEN Tail(cache) ELSE cache,
           text, embedding)

\* embed(text), up to its return on a hit or to its await on a miss.
CachedEmbed(text) ==
  /\ Len(embedPending) < MaxPending
  /\ embedPending' = IF CacheHas(embedCache, text) THEN embedPending
                     ELSE Append(embedPending, text)
  /\ UNCHANGED <<config, chunkVars, indexVars, pipeVars, embedMaxCacheSize, embedCache,
                 buildVars>>

\* The base embedder settles the i-th call in flight: it resolves, and the
\* call stores the embedding and returns it, or it rejects, and so does the
\* call.
CachedEmbedSettles(i, ok) ==
  /\ i \in 1..Len(embedPending)
  /\ embedPending' = SubSeq(embedPending, 1, i - 1)
                       \o SubSeq(embedPending, i + 1, Len(embedPending))
  /\ embedCache' = IF ok
                   THEN CachedEmbedStore(embedCache, embedMaxCacheSize, embedPending[i],
                                         Embed(embedPending[i]))
                   ELSE embedCache
  /\ UNCHANGED <<config, chunkVars, indexVars, pipeVars, embedMaxCacheSize, buildVars>>

(***************************************************************************)
(* Concurrent addDocument calls and the scratch directories of buildVideo. *)
(* A call is at                                                            *)
(*   "idle"      not made yet                                              *)
(*   "encode"    awaiting generateQrCode and embed of its chunks           *)
(*   "ffmpeg"    in buildVideo, awaiting encodeVideo                       *)
(*   "rm"        in the finally block of buildVideo, awaiting fs.rm        *)
(*   "upsert"    awaiting database.upsert                                  *)
(*   "returned", "thrown"                                                  *)
(* built says that the call has entered buildVideo and tempDir is the <ms> *)
(* of its temp_qr_frames_<ms>; failed, that the try block has thrown.      *)
(***************************************************************************)
NoCall == [pc |-> "idle", built |-> FALSE, tempDir |-> 0, failed |-> FALSE]

\* const tempDir = path.join(process.cwd(), `temp_qr_frames_${Date.now()}`)
TempDir == now

\* Variant that skips the cleanup when the try block has thrown.
RunsCleanupOnSuccess(failed) == ~failed

\* try { ... } finally { cleanup }: the cleanup runs however the block ends.
RunsCleanup(failed) == TRUE

\* Variant that lets any call start at any time.
MayStartAny(c) == TRUE

\* addDocumentsBatch awaits the addDocument of a document before it calls
\* that of the next one, in list order; an error ends the batch.
MayStart(c) == ~inBatch \/ c = 1 \/ (c > 1 /\ calls[c - 1].pc = "returned")

\* The end of the try block of buildVideo, into its finally block: when the
\* directory exists, fs.promises.rm is awaited; else buildVideo ends.
Finally(call, failed) ==
  IF RunsCleanup(failed) /\ call.tempDir \in scratch
  THEN [call EXCEPT !.pc = "rm", !.failed = failed]
  ELSE [call EXCEPT !.pc = IF failed THEN "thrown" ELSE "upsert", !.failed = failed]

ClockTicks ==
  /\ now < MaxClock
  /\ now' = now + 1
  /\ UNCHANGED <<config, chunkVars, indexVars, pipeVars, embedVars, scratch, calls, inBatch>>

\* addDocument, up to its first await.
StartAddDocument(c) ==
  /\ calls[c].pc = "idle"
  /\ MayStart(c)
  /\ calls' = [calls EXCEPT ![c].pc = "encode"]
  /\ UNCHANGED <<config, chunkVars, indexVars, pipeVars, embedVars, now, scratch, inBatch>>

\* The last chunk is encoded, or a chunk is rejected.  After the last one,
\* buildVideo runs up to its first await: it names its directory, makes it
\* unless it exists, writes the frames into it and starts ffmpeg; mkdirSync
\* and writeFileSync may throw.
EncodeSettles(c) ==
  /\ calls[c].pc = "encode"
  /\ \E outcome \in {"rejected", "mkdirThrows", "writeThrows", "written"} :
       LET call == [calls[c] EXCEPT !.built = TRUE, !.tempDir = TempDir]
       IN  CASE outcome = "rejected" ->
                  /\ calls' = [calls EXCEPT ![c].pc = "thrown"]
                  /\ UNCHANGED scratch
             [] outcome = "mkdirThrows" ->
                  /\ TempDir \notin scratch
                  /\ calls' = [calls EXCEPT ![c] = Finally(call, TRUE)]
                  /\ UNCHANGED scratch
             [] outcome = "writeThrows" ->
                  /\ scratch' = scratch \cup {TempDir}
                  /\ calls' = [calls EXCEPT ![c] =
                                 IF RunsCleanup(TRUE)
                                 THEN [call EXCEPT !.pc = "rm", !.failed = TRUE]
                                 ELSE [call EXCEPT !.pc = "thrown", !.failed = TRUE]]
             [] outcome = "written" ->
                  /\ scratch' = scratch \cup {TempDir}
                  /\ calls' = [calls EXCEPT ![c] = [call EXCEPT !.pc = "ffmpeg"]]
  /\ UNCHANGED <<config, chunkVars, indexVars, pipeVars, embedVars, now, inBatch>>

\* encodeVideo resolves or rejects.
FfmpegSettles(c) ==
  /\ calls[c].pc = "ffmpeg"
  /\ \E ok \in BOOLEAN : calls' = [calls EXCEPT ![c] = Finally(calls[c], ~ok)]
  /\ UNCHANGED <<config, chunkVars, indexVars, pipeVars, embedVars, now, scratch, inBatch>>

\* fs.promises.rm(tempDir, { recursive: true, force: true }) has removed the
\* directory; buildVideo returns, or throws what its try block threw.
RmSettles(c) ==
  /\ calls[c].pc = "rm"
  /\ scratch' = scratch \ {calls[c].tempDir}
  /\ calls' = [calls EXCEPT ![c].pc = IF calls[c].failed THEN "thrown" ELSE "upsert"]
  /\ UNCHANGED <<config, chunkVars, indexVars, pipeVars, embedVars, now, inBatch>>

\* database.upsert resolves or rejects, and addDocument ends.
UpsertSettles(c) ==
  /\ calls[c].pc = "upsert"
  /\ \E ok \in BOOLEAN :
       calls' = [calls EXCEPT ![c].pc = IF ok THEN "returned" ELSE "thrown"]
  /\ UNCHANGED <<config, chunkVars, indexVars, pipeVars, embedVars, now, scratch, inBatch>>

(***************************************************************************)
(* The parts of the state a specification does not use stay as they are    *)
(* after construction.                                                     *)
(***************************************************************************)
NoOp == [op |-> "none"]
NoResult == [none |-> TRUE]

EmbedIdle ==
  /\ embedMaxCacheSize = DefaultEmbedMaxCacheSize
  /\ embedCache = <<>>
  /\ embedPending = <<>>

BuildIdle ==
  /\ now = 0
  /\ scratch = {}
  /\ calls = [c \in 1..MaxCalls |-> NoCall]
  /\ inBatch = FALSE

ChunkIdle ==
  /\ ckPc = "idle"
  /\ ckText = <<>>
  /\ ckI = 0
  /\ ckChunks = <<>>

IndexIdle ==
  /\ backend = "memory"
  /\ store = <<>>
  /\ file = NoFile
  /\ writeFailures = 0
  /\ ixOp = NoOp
  /\ ixResult = NoResult

PipeIdle ==
  /\ videos = [p \in Paths |-> NoVideo]
  /\ add = NoAdd
  /\ added = 0
  /\ addsFailed = 0
  /\ lastAdd = NoOp
  /\ maxCacheSize = DefaultMaxCacheSize
  /\ frameCache = <<>>
  /\ used = <<>>

(***************************************************************************)
(* SpecIndex: calls on one adapter, in-memory or file-backed.              *)
(***************************************************************************)
MaxLimit == MaxStore + 1

\* The entries given to upsert: frame n of either document, with an
\* embedding per frame number; the last one has another dimension.
PoolVectors == << <<1, 0>>, <<0, 1>>, <<1>> >>
QueryVectors == {<<1, 0>>, <<1, 1>>, <<-1, 0>>, <<0, 0>>, <<1>>}

EntryPool ==
  {[chunkText |-> <<"a">>, embedding |-> PoolVectors[n + 1],
    frameNumber |-> n, documentId |-> d] : n \in 0..(Len(PoolVectors) - 1), d \in DocIds}

Batches == SeqsUpTo(EntryPool, MaxBatch)

InitIndex ==
  /\ config = Constructor([chunkSize |-> None, chunkOverlap |-> None, videoFps |-> None])
  /\ ChunkIdle
  /\ backend \in {"memory", "file"}
  /\ store = <<>>
  /\ file = NoFile
  /\ writeFailures = 0
  /\ ixOp = NoOp
  /\ ixResult = NoResult
  /\ PipeIdle
  /\ EmbedIdle
  /\ BuildIdle

IndexUpsert(batch) ==
  /\ Len(store) + Len(batch) <= MaxStore
  /\ store' = UpsertEntries(store, batch)
  /\ SaveStep(store')
  /\ ixOp' = [op |-> "upsert", entries |-> batch, before |-> store]
  /\ ixResult' = NoResult
  /\ UNCHANGED <<config, chunkVars, backend, pipeVars, embedVars, buildVars>>

IndexSearch(embedding, limit) ==
  /\ ixResult' = SearchEntries(store, embedding, limit)
  /\ ixOp' = [op |-> "search", embedding |-> embedding, limit |-> limit]
  /\ UNCHANGED <<config, chunkVars, backend, store, file, writeFailures,
                 pipeVars, embedVars, buildVars>>

IndexDelete(documentId) ==
  /\ store' = IF backend = "memory"
              THEN MemoryDelete(store, documentId)
              ELSE FileDelete(store, documentId)
  /\ SaveStep(store')
  /\ ixOp' = [op |-> "delete", documentId |-> documentId, before |-> store]
  /\ ixResult' = NoResult
  /\ UNCHANGED <<config, chunkVars, backend, pipeVars, embedVars, buildVars>>

IndexClear ==
  /\ store' = <<>>
  /\ SaveStep(store')
  /\ ixOp' = [op |-> "clear", before |-> store]
  /\ ixResult' = NoResult
  /\ UNCHANGED <<config, chunkVars, backend, pipeVars, embedVars, buildVars>>

NextIndex ==
  \/ \E batch \in Batches : IndexUpsert(batch)
  \/ \E embedding \in QueryVectors, limit \in 0..MaxLimit :
       IndexSearch(embedding, limit)
  \/ \E documentId \in DocIds : IndexDelete(documentId)
  \/ IndexClear

SpecIndex == InitIndex /\ [][NextIndex]_vars

(***************************************************************************)
(* SpecChunk: construction with any options, then calls of chunkText run   *)
(* one loop iteration at a time.  A loop that does not end is followed for *)
(* MaxLoop iterations.                                                     *)
(***************************************************************************)
MaxLoop == MaxTextLen + 2

SizeOptions == {None} \cup {Some(n) : n \in 1..MaxChunkSize}
OverlapOptions == {None} \cup {Some(n) : n \in -1..MaxChunkSize}

ChunkOptions ==
  [chunkSize : SizeOptions, chunkOverlap : OverlapOptions, videoFps : {None}]

InitChunk ==
  /\ \E opts \in ChunkOptions : config = Constructor(opts)
  /\ ChunkIdle
  /\ IndexIdle
  /\ PipeIdle
  /\ EmbedIdle
  /\ BuildIdle

ChunkCall(text) ==
  /\ ckPc \in {"idle", "returned"}
  /\ ckPc' = "loop"
  /\ ckText' = text
  /\ ckI' = 0
  /\ ckChunks' = <<>>
  /\ UNCHANGED <<config, indexVars, pipeVars, embedVars, buildVars>>

ChunkIterate ==
  /\ ckPc = "loop"
  /\ ChunkLoopCond([i |-> ckI, chunks |-> ckChunks], ckText)
  /\ Len(ckChunks) < MaxLoop
  /\ LET st == ChunkLoopBody([i |-> ckI, chunks |-> ckChunks], ckText, config)
     IN  /\ ckI' = st.i
         /\ ckChunks' = st.chunks
  /\ UNCHANGED <<config, ckPc, ckText, indexVars, pipeVars, embedVars,
                 buildVars>>

ChunkReturn ==
  /\ ckPc = "loop"
  /\ ~ChunkLoopCond([i |-> ckI, chunks |-> ckChunks], ckText)
  /\ ckPc' = "returned"
  /\ UNCHANGED <<config, ckText, ckI, ckChunks, indexVars, pipeVars, embedVars,
                 buildVars>>

NextChunk ==
  \/ \E text \in Texts : ChunkCall(text)
  \/ ChunkIterate
  \/ ChunkReturn

SpecChunk == InitChunk /\ [][NextChunk]_vars

\* chunkText is synchronous code: once called, its loop keeps running, and
\* it returns when the loop condition fails.
SpecChunkFair ==
  InitChunk /\ [][NextChunk]_vars /\ WF_vars(ChunkIterate) /\ WF_vars(ChunkReturn)

(***************************************************************************)
(* Spec: one encoder and one retriever on one in-memory index.  Documents  *)
(* are added, at most MaxAdds times; searches and frame reads run between  *)
(* the steps of addDocument.                                               *)
(***************************************************************************)

DocTexts == SeqsUpTo(Alphabet, MaxDocLen)
Queries == {<<"a">>, <<"b">>}

PipeOptions ==
  [chunkSize    : {Some(n) : n \in 1..MaxPipeChunkSize},
   chunkOverlap : {Some(n) : n \in 0..(MaxPipeChunkSize - 1)},
   videoFps     : {None, Some(2)}]

Init ==
  /\ \E opts \in PipeOptions : config = Constructor(opts)
  /\ ChunkIdle
  /\ IndexIdle
  /\ videos = [p \in Paths |-> NoVideo]
  /\ add = NoAdd
  /\ added = 0
  /\ addsFailed = 0
  /\ lastAdd = NoOp
  /\ maxCacheSize \in 1..MaxCache
  /\ frameCache = <<>>
  /\ used = <<>>
  /\ EmbedIdle
  /\ BuildIdle

Next ==
  \/ \E documentId \in DocIds, text \in DocTexts, path \in Paths :
       AddDocument(documentId, text, path)
  \/ AddEncode
  \/ AddBuildVideo
  \/ AddUpsert
  \/ \E query \in Queries, videoPath \in Paths, matchCount \in 0..(MaxDocLen + 1) :
       Search(query, videoPath, matchCount) /\ UNCHANGED used
  \/ \E videoPath \in Paths, frameNumber \in 0..MaxDocLen :
       GetFrameByNumber(videoPath, frameNumber) /\ UNCHANGED used
  \/ ClearCache /\ UNCHANGED used

Spec == Init /\ [][Next]_vars

(***************************************************************************)
(* SpecRetriever: calls on one retriever, with any maxCacheSize, over an   *)
(* index and videos that do not change: document d1 was added to p1.mp4    *)
(* and the shorter d2 to p2.mp4, one character per chunk (an empty text    *)
(* stands for a document that was not added), and the first frame of       *)
(* p1.mp4 may have been overwritten with bytes that are no QR code.        *)
(* In place of d2 the index may hold an entry that another embedder made, *)
(* of another dimension, on which database.search throws.  A query may be  *)
(* one the embedder rejects.                                               *)
(***************************************************************************)
RetrieverOptions == [chunkSize |-> Some(1), chunkOverlap |-> Some(0), videoFps |-> None]

PathLists == SeqsUpTo(Paths, MaxPaths)
FrameLists == SeqsUpTo(0..MaxDocLen, MaxBatchFrames)
CacheSizes == {None} \cup {Some(n) : n \in 0..MaxCache}
RetrieverQueries == Queries \cup {<<"?">>}

ForeignEntry ==
  [chunkText |-> <<"a">>, embedding |-> <<1>>, frameNumber |-> 0, documentId |-> "d2"]

\* The file addDocument leaves at the path, frame corrupt (from 1) overwritten.
Encoded(text, cfg, corrupt) ==
  IF text = <<>> THEN NoVideo
  ELSE [exists |-> TRUE,
        frames |-> [i \in 1..Len(ChunkText(text, cfg)) |->
                      IF i = corrupt THEN Garbage
                      ELSE QrCodeBuffers(ChunkText(text, cfg))[i]],
        fps    |-> cfg.videoFps]

InitRetriever ==
  /\ config = Constructor(RetrieverOptions)
  /\ ChunkIdle
  /\ backend = "memory"
  /\ \E text1 \in DocTexts, text2 \in SeqsUpTo(Alphabet, MaxDocLen - 1), corrupt \in 0..1,
        foreign \in BOOLEAN :
       /\ foreign => text2 = <<>>
       /\ store = IndexEntries(ChunkText(text1, Constructor(RetrieverOptions)), "d1")
                    \o IndexEntries(ChunkText(text2, Constructor(RetrieverOptions)), "d2")
                    \o (IF foreign THEN <<ForeignEntry>> ELSE <<>>)
       /\ videos = [p \in Paths |->
                      IF p = "p1.mp4"
                      THEN Encoded(text1, Constructor(RetrieverOptions), corrupt)
                      ELSE Encoded(text2, Constructor(RetrieverOptions), 0)]
  /\ file = NoFile
  /\ writeFailures = 0
  /\ ixOp = NoOp
  /\ ixResult = NoResult
  /\ add = NoAdd
  /\ added = 0
  /\ addsFailed = 0
  /\ lastAdd = NoOp
  /\ \E size \in CacheSizes : maxCacheSize = OrDefault(size, DefaultMaxCacheSize)
  /\ frameCache = <<>>
  /\ used = <<>>
  /\ EmbedIdle
  /\ BuildIdle

NextRetriever ==
  \/ \E query \in RetrieverQueries, videoPath \in Paths, matchCount \in 0..(MaxDocLen + 1) :
       /\ Search(query, videoPath, matchCount)
       /\ used' = TouchEach(used, SearchOutcome(query, videoPath, matchCount).touched)
  \/ \E query \in RetrieverQueries, videoPaths \in PathLists,
        matchCount \in 0..(MaxDocLen + 1) :
       /\ SearchMultiple(query, videoPaths, matchCount)
       /\ used' = TouchEach(used, SearchMultipleOutcome(query, videoPaths, matchCount).touched)
  \/ \E videoPath \in Paths, frameNumber \in 0..MaxDocLen :
       /\ GetFrameByNumber(videoPath, frameNumber)
       /\ used' = TouchEach(used, FrameOutcome(videoPath, frameNumber).touched)
  \/ \E videoPath \in Paths, frameNumbers \in FrameLists :
       /\ BatchDecodeFrames(videoPath, frameNumbers)
       /\ used' = TouchEach(used, BatchDecodeOutcome(videoPath, frameNumbers).touched)
  \/ ClearCache /\ used' = <<>>

SpecRetriever == InitRetriever /\ [][NextRetriever]_vars

(***************************************************************************)
(* SpecEmbedder: embed calls on one cached embedder, with any              *)
(* maxCacheSize; calls in flight settle in any order.                      *)
(***************************************************************************)
EmbedTexts == SeqsUpTo(Alphabet, MaxEmbedTextLen)
EmbedCacheSizes == {None} \cup {Some(n) : n \in 0..MaxEmbedCache}

InitEmbedder ==
  /\ config = Constructor(RetrieverOptions)
  /\ ChunkIdle
  /\ IndexIdle
  /\ PipeIdle
  /\ \E size \in EmbedCacheSizes :
       embedMaxCacheSize = OrDefault(size, DefaultEmbedMaxCacheSize)
  /\ embedCache = <<>>
  /\ embedPending = <<>>
  /\ BuildIdle

NextEmbedder ==
  \/ \E text \in EmbedTexts : CachedEmbed(text)
  \/ \E i \in 1..MaxPending, ok \in BOOLEAN : CachedEmbedSettles(i, ok)

SpecEmbedder == InitEmbedder /\ [][NextEmbedder]_vars

(***************************************************************************)
(* SpecBuild: MaxCalls addDocument calls on one encoder, made by           *)
(* concurrent callers or by one addDocumentsBatch, while the clock runs.   *)
(***************************************************************************)
InitBuild ==
  /\ config = Constructor(RetrieverOptions)
  /\ ChunkIdle
  /\ IndexIdle
  /\ PipeIdle
  /\ EmbedIdle
  /\ now = 0
  /\ scratch = {}
  /\ calls = [c \in 1..MaxCalls |-> NoCall]
  /\ inBatch \in BOOLEAN

NextBuild ==
  \/ ClockTicks
  \/ \E c \in 1..MaxCalls : StartAddDocument(c)
  \/ \E c \in 1..MaxCalls : EncodeSettles(c)
  \/ \E c \in 1..MaxCalls : FfmpegSettles(c)
  \/ \E c \in 1..MaxCalls : RmSettles(c)
  \/ \E c \in 1..MaxCalls : UpsertSettles(c)

SpecBuild == InitBuild /\ [][NextBuild]_vars

(***************************************************************************)
(* Claims about chunkText and the constructor, under SpecChunk.            *)
(***************************************************************************)
Stride == config.chunkSize - config.chunkOverlap

RECURSIVE Concat(_)
Concat(seqs) == IF seqs = <<>> THEN <<>> ELSE Head(seqs) \o Concat(Tail(seqs))

\* The number of window starts 0, stride, 2 * stride, ... below len.
WindowCount(len, stride) == IF len = 0 THEN 0 ELSE ((len - 1) \div stride) + 1

\* C5: with chunkOverlap < chunkSize, chunkText returns the windows
\* text[i, min(i + chunkSize, len)) for i = 0, stride, 2 * stride, ... below
\* len, in that order, and the j-th chunk emitted has index j (from 0).
ChunkTextEmitsWindows ==
  (ckPc = "returned" /\ config.chunkOverlap < config.chunkSize) =>
    /\ Len(ckChunks) = WindowCount(Len(ckText), Stride)
    /\ \A j \in 1..Len(ckChunks) :
         /\ ckChunks[j].index = j - 1
         /\ ckChunks[j].text =
              SubSeq(ckText, (j - 1) * Stride + 1,
                     Min((j - 1) * Stride + config.chunkSize, Len(ckText)))

\* C5 witness: a call returned several chunks that overlap, the last one
\* shorter than chunkSize.
ChunkTextEmitsWindowsWitness ==
  /\ ckPc = "returned"
  /\ config.chunkOverlap > 0
  /\ config.chunkOverlap < config.chunkSize
  /\ Len(ckChunks) >= 3
  /\ Len(ckChunks[Len(ckChunks)].text) < config.chunkSize

DropLast(t, n) == SubSeq(t, 1, Max(0, Len(t) - n))
TakeFirst(t, n) == SubSeq(t, 1, Min(n, Len(t)))

\* C6 as claimed: with 0 <= chunkOverlap < chunkSize, the chunks in index
\* order, each but the last without its last chunkOverlap characters,
\* concatenate to the text.
ReassemblyDroppingLastOverlap ==
  (ckPc = "returned" /\ 0 <= config.chunkOverlap /\ config.chunkOverlap < config.chunkSize) =>
    Concat([j \in 1..Len(ckChunks) |->
              IF j < Len(ckChunks)
              THEN DropLast(ckChunks[j].text, config.chunkOverlap)
              ELSE ckChunks[j].text]) = ckText

\* C6 amended: with 0 <= chunkOverlap < chunkSize, the chunks in index order,
\* each but the last cut to its first chunkSize - chunkOverlap characters
\* (the part the next chunk does not repeat), concatenate to the text.
ReassemblyKeepingStride ==
  (ckPc = "returned" /\ 0 <= config.chunkOverlap /\ config.chunkOverlap < config.chunkSize) =>
    Concat([j \in 1..Len(ckChunks) |->
              IF j < Len(ckChunks)
              THEN TakeFirst(ckChunks[j].text, Stride)
              ELSE ckChunks[j].text]) = ckText

\* C6 witness: a call returned, with an overlap, a chunk before the last one
\* that the end of the text cut short of chunkSize.
ReassemblyKeepingStrideWitness ==
  /\ ckPc = "returned"
  /\ config.chunkOverlap > 0
  /\ config.chunkOverlap < config.chunkSize
  /\ \E j \in 1..(Len(ckChunks) - 1) : Len(ckChunks[j].text) < config.chunkSize

\* C7: an encoder with chunkOverlap >= chunkSize is never constructed, so
\* chunkText never runs with a zero or negative stride.
ChunkTextNeverRunsWithoutStride ==
  ckPc # "idle" => config.chunkOverlap < config.chunkSize

(***************************************************************************)
(* Claims about the VectorDatabase adapters, under SpecIndex.              *)
(***************************************************************************)
IsSorted(results) ==
  \A i \in 1..(Len(results) - 1) :
    ~SimLess(results[i].similarity, results[i + 1].similarity)

SameDimension(embedding) ==
  \A i \in 1..Len(store) : Len(store[i].embedding) = Len(embedding)

\* What search owes for a query it can compare with every stored entry.
SearchAnswers(embedding, limit) ==
  /\ ~ixResult.thrown
  /\ Len(ixResult.value) = Min(limit, Len(store))
  /\ \A i \in 1..Len(ixResult.value) :
       ixResult.value[i].similarity =
         CosineSimilarity(embedding, ixResult.value[i].embedding)
  /\ IsSorted(ixResult.value)
  /\ (limit = 0 \/ store = <<>>) => ixResult.value = <<>>

\* C8 as claimed: search(embedding, k) returns min(k, number of entries)
\* entries, each with its similarity, in non-increasing order of similarity;
\* with k = 0 or an empty store it returns the empty sequence, without error.
SearchReturnsTopK ==
  ixOp.op = "search" => SearchAnswers(ixOp.embedding, ixOp.limit)

\* C8 amended: the same, for a query embedding that has the dimension of
\* every stored entry (an empty store included); for any other query search
\* raises an error.
SearchReturnsTopKOfSameDimension ==
  ixOp.op = "search" =>
    IF SameDimension(ixOp.embedding)
    THEN SearchAnswers(ixOp.embedding, ixOp.limit)
    ELSE ixResult.thrown

\* C8 witness: a search with 0 < k < number of entries over entries of
\* different similarities, two of them equal, and one with k = 0 answered
\* the same way.
SearchReturnsTopKWitness ==
  /\ ixOp.op = "search"
  /\ SameDimension(ixOp.embedding)
  /\ Len(store) = 3
  /\ ixOp.limit = 2
  /\ Len(ixResult.value) = 2
  /\ SimLess(ixResult.value[2].similarity, ixResult.value[1].similarity)
  /\ ixResult.value[1].frameNumber # store[1].frameNumber

\* C9: delete(documentId) removes every entry of that document and keeps
\* every other entry, in its order, in both adapters.
DeleteRemovesTheDocumentOnly ==
  ixOp.op = "delete" =>
    /\ \A i \in 1..Len(store) : store[i].documentId # ixOp.documentId
    /\ store = SelectSeq(ixOp.before, LAMBDA e : e.documentId # ixOp.documentId)

\* C9 witness: a delete removed two entries of one document from between
\* and around entries of the other, which stay.
DeleteRemovesTheDocumentOnlyWitness ==
  /\ ixOp.op = "delete"
  /\ Len(ixOp.before) = 3
  /\ Len(store) = 1
  /\ ixOp.before[2].documentId # ixOp.documentId

\* C10: upsert(entries) appends: the store is the previous store followed by
\* the given entries in their order, also when an entry of the same
\* (documentId, frameNumber) is stored already.
UpsertAppends ==
  ixOp.op = "upsert" =>
    /\ Len(store) = Len(ixOp.before) + Len(ixOp.entries)
    /\ \A i \in 1..Len(ixOp.before) : store[i] = ixOp.before[i]
    /\ \A i \in 1..Len(ixOp.entries) : store[Len(ixOp.before) + i] = ixOp.entries[i]

\* C10 witness: an upsert of two entries onto a store that already holds an
\* entry with the documentId and frameNumber of one of them.
UpsertAppendsWitness ==
  /\ ixOp.op = "upsert"
  /\ Len(ixOp.entries) = 2
  /\ ixOp.entries[1] # ixOp.entries[2]
  /\ \E i \in 1..Len(ixOp.before) :
       /\ ixOp.before[i].documentId = ixOp.entries[2].documentId
       /\ ixOp.before[i].frameNumber = ixOp.entries[2].frameNumber

(***************************************************************************)
(* Claims about the pipeline, under Spec.                                  *)
(***************************************************************************)
MatchCounts == 0..(MaxDocLen + 1)

\* Every addDocument call made so far has returned.
AllAddsSucceeded == add = NoAdd /\ added > 0 /\ addsFailed = 0

\* The index holds an entry of this document and frame with this text.
IsIndexedChunk(documentId, frameNumber, text) ==
  \E j \in 1..Len(store) :
    /\ store[j].documentId = documentId
    /\ store[j].frameNumber = frameNumber
    /\ store[j].chunkText = text

\* C1: after successful addDocument calls on one index, every result of
\* search(query, videoPath, k) carries the chunkText of the index entry
\* whose documentId and frameNumber it reports.
SearchTextIsIndexedChunk ==
  AllAddsSucceeded =>
    \A query \in Queries, videoPath \in Paths, matchCount \in MatchCounts :
      LET found == SearchOutcome(query, videoPath, matchCount).outcome
      IN  ~found.thrown =>
            \A i \in 1..Len(found.value) :
              IsIndexedChunk(found.value[i].documentId, found.value[i].frameNumber,
                             found.value[i].text)

FrameNumbersOf(documentId) ==
  {store[j].frameNumber : j \in {k \in 1..Len(store) : store[k].documentId = documentId}}

\* C2: after a successful addDocument(documentId, text, path) with a
\* non-empty text, the frame numbers of the document's index entries are
\* exactly 0 .. n-1, n the number of chunks of the text.
FrameNumbersAreChunkIndices ==
  (add = NoAdd /\ lastAdd.op = "addDocument" /\ lastAdd.ok /\ lastAdd.text # <<>>) =>
    FrameNumbersOf(lastAdd.documentId) = 0..(Len(ChunkText(lastAdd.text, config)) - 1)

\* C3: the index never holds two entries of one (documentId, frameNumber),
\* also when a documentId is added more than once.
NoDuplicateFrameNumbers ==
  \A i, j \in 1..Len(store) :
    (store[i].documentId = store[j].documentId
       /\ store[i].frameNumber = store[j].frameNumber) => i = j

\* The step in which buildVideo fails and addDocument throws.
BuildVideoFails ==
  /\ add.at > 0
  /\ AddDocumentSteps[add.at] = "buildVideo"
  /\ add' = NoAdd
  /\ ~lastAdd'.ok

\* C4: within one addDocument the index is written only after buildVideo
\* has succeeded, and when buildVideo fails the index is as the call found
\* it.
IndexedOnlyAfterMuxed ==
  [][/\ store' # store => (add.at > 0 /\ add.muxed)
     /\ BuildVideoFails => store' = add.before]_vars

\* C4 witness: an addDocument has written the index after its video, and
\* the buildVideo of a later one has failed.
IndexedOnlyAfterMuxedWitness ==
  /\ lastAdd.op = "addDocument"
  /\ ~lastAdd.ok
  /\ lastAdd.at = "buildVideo"
  /\ Len(store) > 0
  /\ \E p \in Paths : videos[p] # NoVideo /\ videos[p].frames # <<>>

(***************************************************************************)
(* Further claims about the adapters, under SpecIndex.                     *)
(***************************************************************************)
\* C19: after any sequence of upserts all stored embeddings have one
\* dimension.
StoredEmbeddingsHaveOneDimension ==
  \A i, j \in 1..Len(store) : Len(store[i].embedding) = Len(store[j].embedding)

\* C20: when an upsert, delete or clear of the file adapter has returned,
\* the file holds the adapter's entries: an adapter opened on the path
\* starts with the same store and answers every search as this one does.
FileHoldsTheStore ==
  (backend = "file" /\ ixOp.op \in {"upsert", "delete", "clear"}) =>
    /\ Load(file) = store
    /\ \A embedding \in QueryVectors, limit \in 0..MaxLimit :
         SearchEntries(Load(file), embedding, limit)
           = SearchEntries(store, embedding, limit)

(***************************************************************************)
(* Claims about the retriever, under SpecRetriever.                        *)
(***************************************************************************)
\* The video at the path holds a QR code at the frame.
FrameIsReadable(videoPath, frameNumber) ==
  /\ videos[videoPath] # NoVideo
  /\ frameNumber < Len(videos[videoPath].frames)
  /\ videos[videoPath].frames[frameNumber + 1] # Garbage

IsCached(videoPath, frameNumber) ==
  CacheGet(frameCache, CacheKey(videoPath, frameNumber)) # Null

\* The hits search gives a result for: those cached or readable.
HitsKept(hits, videoPath) ==
  SelectSeq(hits, LAMBDA h : \/ IsCached(videoPath, h.frameNumber)
                             \/ FrameIsReadable(videoPath, h.frameNumber))

\* C11: when the video file exists, search returns without error one
\* result for each index hit whose frame is cached or can be extracted and
\* decoded, in the order of the hits, and none for the other hits.
SearchSkipsUnreadableFrames ==
  \A query \in Queries, videoPath \in Paths, matchCount \in MatchCounts :
    (videos[videoPath] # NoVideo /\ ~RetrieveChunks(query, matchCount).thrown) =>
      LET kept == HitsKept(RetrieveChunks(query, matchCount).value, videoPath)
          found == SearchOutcome(query, videoPath, matchCount).outcome
      IN  /\ ~found.thrown
          /\ Len(found.value) = Len(kept)
          /\ \A i \in 1..Len(kept) :
               /\ found.value[i].documentId = kept[i].documentId
               /\ found.value[i].frameNumber = kept[i].frameNumber
               /\ found.value[i].similarity = kept[i].similarity
               /\ found.value[i].text \notin {Null, Garbage}

\* C11 witness: after some call, a search whose k hits include exactly one
\* frame that is no QR code returns k - 1 results.
SearchSkipsUnreadableFramesWitness ==
  /\ used # <<>>
  /\ \E query \in Queries, videoPath \in Paths, matchCount \in MatchCounts :
       LET hits == RetrieveChunks(query, matchCount).value
           found == SearchOutcome(query, videoPath, matchCount).outcome
       IN  /\ videos[videoPath] # NoVideo
           /\ matchCount >= 2
           /\ Len(hits) = matchCount
           /\ \E i \in 1..Len(hits) :
                /\ hits[i].frameNumber < Len(videos[videoPath].frames)
                /\ videos[videoPath].frames[hits[i].frameNumber + 1] = Garbage
           /\ ~found.thrown
           /\ Len(found.value) = matchCount - 1

\* C12: search on a path where no file exists fails, whatever the query,
\* the index and k are.
SearchOnMissingVideoThrows ==
  \A query \in Queries, videoPath \in Paths, matchCount \in MatchCounts :
    videos[videoPath] = NoVideo =>
      SearchOutcome(query, videoPath, matchCount).outcome.thrown

\* search(query, p, k) for each p of the paths in order, the results
\* concatenated; an error of one search is the error of the whole.
RECURSIVE SearchEachPath(_, _, _, _)
SearchEachPath(cache, query, videoPaths, matchCount) ==
  IF videoPaths = <<>> THEN Returned(<<>>)
  ELSE LET first == SearchFrom(cache, query, Head(videoPaths), matchCount)
           rest == SearchEachPath(first.cache, query, Tail(videoPaths), matchCount)
       IN  IF first.outcome.thrown \/ rest.thrown THEN Thrown
           ELSE Returned(first.outcome.value \o rest.value)

\* C13: searchMultiple(query, paths, k) ends as search(query, p, k) run for
\* each p of paths in order does, the results concatenated and sorted by
\* non-increasing similarity; it returns at most k * |paths| results.
SearchMultipleIsSearchOfEachPath ==
  \A query \in Queries, videoPaths \in PathLists, matchCount \in MatchCounts :
    LET each == SearchEachPath(frameCache, query, videoPaths, matchCount)
        found == SearchMultipleOutcome(query, videoPaths, matchCount).outcome
    IN  /\ found.thrown = each.thrown
        /\ ~found.thrown =>
             /\ found.value = SortBySimilarity(each.value)
             /\ Len(found.value) <= matchCount * Len(videoPaths)

\* C14: the frame cache never holds more than maxCacheSize entries.
CacheWithinMaxCacheSize == GetCacheStats.size <= GetCacheStats.maxSize

CacheKeys == {frameCache[i].key : i \in 1..Len(frameCache)}

\* The n most recently used keys.
MostRecentlyUsed(n) ==
  {used[i] : i \in (Len(used) - Min(n, Len(used)) + 1)..Len(used)}

\* C15: eviction is LRU, a cache hit counting as a use: with a capacity of
\* at least one, the cache holds the maxCacheSize most recently used keys.
CacheHoldsMostRecentlyUsed ==
  maxCacheSize >= 1 => CacheKeys = MostRecentlyUsed(maxCacheSize)

\* C16: whatever calls have warmed the cache, and with no addDocument
\* running or failed, search returns the same results from the warm cache
\* as from a cold one.
SearchIgnoresCacheWarmth ==
  (add = NoAdd /\ addsFailed = 0) =>
    \A query \in Queries, videoPath \in Paths, matchCount \in MatchCounts :
      SearchOutcome(query, videoPath, matchCount).outcome
        = SearchFrom(<<>>, query, videoPath, matchCount).outcome

IsPrefix(a, b) == Len(a) <= Len(b) /\ SubSeq(b, 1, Len(a)) = a

FrameNumberAddressesFrame ==
  \A videoPath \in Paths :
    (add = NoAdd /\ videos[videoPath] # NoVideo /\ frameCache = <<>>) =>
      \A n \in 0..(Len(videos[videoPath].frames) - 1) :
        FrameOutcome(videoPath, n).outcome = Returned(videos[videoPath].frames[n + 1])

\* The step in which generateQrCode or embed rejects and addDocument throws.
EncodeFails ==
  /\ add.at > 0
  /\ AddDocumentSteps[add.at] = "encode"
  /\ add' = NoAdd
  /\ ~lastAdd'.ok

\* C21: chunkText of the empty text returns no chunk; no step of an
\* addDocument with an empty text changes the index; and after such a call,
\* the only one made, no search returns an entry of its documentId.
EmptyTextAddsNoEntries ==
  /\ [](ChunkText(<<>>, config) = <<>>)
  /\ [][(add.at > 0 /\ add.text = <<>>) => store' = store]_vars
  /\ []((add = NoAdd /\ added = 1 /\ lastAdd.op = "addDocument" /\ lastAdd.text = <<>>) =>
         \A query \in Queries, videoPath \in Paths, matchCount \in MatchCounts :
           LET found == SearchOutcome(query, videoPath, matchCount).outcome
           IN  ~found.thrown =>
                 \A i \in 1..Len(found.value) :
                   found.value[i].documentId # lastAdd.documentId)

\* C21 witness: an addDocument with an empty text has ended on an index
\* that holds the entries of an earlier document, and of that one only.
EmptyTextAddsNoEntriesWitness ==
  /\ add = NoAdd
  /\ added = 2
  /\ lastAdd.op = "addDocument"
  /\ lastAdd.text = <<>>
  /\ store # <<>>
  /\ \A i \in 1..Len(store) : store[i].documentId # lastAdd.documentId

\* C22: when generateQrCode or embed rejects for a chunk, addDocument throws
\* at that step: buildVideo has not run, no file is written, and the index is
\* as the call found it.
EncodeFailureWritesNothing ==
  [][EncodeFails => /\ ~add.muxed
                    /\ videos' = videos
                    /\ store = add.before
                    /\ store' = store]_vars

\* C22 witness: an addDocument of several chunks has thrown while encoding,
\* on an index and a video that an earlier call wrote.
EncodeFailureWritesNothingWitness ==
  /\ add = NoAdd
  /\ lastAdd.op = "addDocument"
  /\ ~lastAdd.ok
  /\ lastAdd.at = "encode"
  /\ Len(ChunkText(lastAdd.text, config)) >= 2
  /\ store # <<>>
  /\ \E p \in Paths : videos[p] # NoVideo

\* C26: when buildVideo fails, the path outputVideoPath holds what it held
\* before the call: no output of the failed mux remains.
FailedMuxLeavesNoOutput ==
  [][BuildVideoFails => videos'[add.path] = videos[add.path]]_vars

(***************************************************************************)
(* Further claims about the retriever, under SpecRetriever.                *)
(***************************************************************************)
\* retrieveChunks of the query fails: the embedder rejects it, or the index
\* holds an embedding of another dimension.
RetrievalFails(query) == EmbedRejects(query) \/ Throws(Embed(query), store)

\* C28: when the embedder or the index search fails, search throws, calls
\* extractFrameAsBuffer for no frame, and leaves the frame cache as it was.
SearchFailsBeforeExtraction ==
  \A query \in RetrieverQueries, videoPath \in Paths, matchCount \in MatchCounts :
    RetrievalFails(query) =>
      LET found == SearchOutcome(query, videoPath, matchCount)
      IN  /\ found.outcome = Thrown
          /\ found.extracted = <<>>
          /\ found.cache = frameCache

\* C28 witness: the cache holds a frame, and a search by a query that the
\* embedder takes fails in the index on a path whose frames are uncached.
SearchFailsBeforeExtractionWitness ==
  /\ frameCache # <<>>
  /\ \E query \in Queries, videoPath \in Paths :
       /\ Throws(Embed(query), store)
       /\ videos[videoPath] # NoVideo
       /\ ~IsCached(videoPath, 0)
       /\ SearchOutcome(query, videoPath, 1).outcome = Thrown

\* The entries of the cache after a step that the cache before did not hold.
Inserted == {e \in {frameCache'[i] : i \in 1..Len(frameCache')} :
               \A i \in 1..Len(frameCache) : frameCache[i] # e}

\* Every hit of the list is in the cache or has a frame that cannot be read.
NothingToDecode(hits, videoPath) ==
  \A i \in 1..Len(hits) : \/ IsCached(videoPath, hits[i].frameNumber)
                           \/ ~FrameIsReadable(videoPath, hits[i].frameNumber)

\* C29: a getFrameByNumber, or a search, that decodes no frame leaves the
\* cache as it was; and every entry a step puts in the cache holds the
\* non-empty text decoded from the frame of its key.
OnlyDecodedTextIsCached ==
  /\ [](\A videoPath \in Paths, frameNumber \in 0..MaxDocLen :
          (~IsCached(videoPath, frameNumber) /\ ~FrameIsReadable(videoPath, frameNumber)) =>
            FrameOutcome(videoPath, frameNumber).cache = frameCache)
  /\ [](\A query \in RetrieverQueries, videoPath \in Paths, matchCount \in MatchCounts :
          (\/ RetrieveChunks(query, matchCount).thrown
           \/ NothingToDecode(RetrieveChunks(query, matchCount).value, videoPath)) =>
            SearchOutcome(query, videoPath, matchCount).cache = frameCache)
  /\ [][\A e \in Inserted :
          /\ e.value \notin {Null, Garbage, <<>>}
          /\ videos[e.key[1]] # NoVideo
          /\ e.value = DecodedFrame(videos[e.key[1]], e.key[2])]_vars

\* C29 witness: the cache holds a frame of p1.mp4 while another frame of
\* that video is no QR code, and a search there has a hit on that frame.
OnlyDecodedTextIsCachedWitness ==
  /\ \E i \in 1..Len(frameCache) : frameCache[i].key[1] = "p1.mp4"
  /\ \E n \in 0..MaxDocLen :
       /\ videos["p1.mp4"] # NoVideo
       /\ n < Len(videos["p1.mp4"].frames)
       /\ videos["p1.mp4"].frames[n + 1] = Garbage
       /\ \E query \in Queries :
            LET found == SearchOutcome(query, "p1.mp4", MaxDocLen + 1)
            IN  \E j \in 1..Len(found.extracted) : found.extracted[j] = n

(***************************************************************************)
(* Claims about the cached embedder, under SpecEmbedder.                   *)
(***************************************************************************)
\* C23: the cache of createCachedEmbedder never holds more than
\* maxCacheSize embeddings, whatever texts are embedded.
EmbedCacheWithinMaxCacheSize == Len(embedCache) <= embedMaxCacheSize

(***************************************************************************)
(* Claims about the scratch directories, under SpecBuild.                  *)
(***************************************************************************)
\* The call is inside buildVideo, at one of its awaits.
InBuildVideo(c) == calls[c].pc \in {"ffmpeg", "rm"}

\* The step in which the buildVideo of the call returns or throws.
BuildVideoExits(c) ==
  /\ calls[c].pc \in {"encode", "ffmpeg", "rm"}
  /\ calls'[c].built
  /\ calls'[c].pc \in {"upsert", "thrown"}

\* C24: when buildVideo returns or throws, after a failure to write a frame
\* file, a failure of ffmpeg or none, its scratch directory does not exist.
ScratchRemovedOnExit ==
  [][\A c \in 1..MaxCalls : BuildVideoExits(c) => calls'[c].tempDir \notin scratch']_vars

\* C24 witness: one buildVideo has returned and another has thrown after it
\* had made its directory, and no directory is left.
ScratchRemovedOnExitWitness ==
  /\ scratch = {}
  /\ \E c1, c2 \in 1..MaxCalls :
       /\ calls[c1].pc \in {"upsert", "returned"}
       /\ calls[c2].pc = "thrown" /\ calls[c2].built /\ calls[c2].failed
       /\ calls[c1].tempDir # calls[c2].tempDir

\* C25: two buildVideo invocations that overlap use distinct scratch
\* directories.
OverlappingBuildsUseDistinctDirs ==
  \A c1, c2 \in 1..MaxCalls :
    (c1 # c2 /\ InBuildVideo(c1) /\ InBuildVideo(c2)) =>
      calls[c1].tempDir # calls[c2].tempDir

\* The call has been made and has not ended.
Running(c) == calls[c].pc \in {"encode", "ffmpeg", "rm", "upsert"}

\* C27: in an addDocumentsBatch the addDocument of a document is called only
\* after that of the document before it has returned, so no two run at a
\* time and at most one scratch directory exists.
BatchIsSequential ==
  inBatch =>
    /\ \A c \in 2..MaxCalls : calls[c].pc # "idle" => calls[c - 1].pc = "returned"
    /\ \A c1, c2 \in 1..MaxCalls : (Running(c1) /\ Running(c2)) => c1 = c2
    /\ Cardinality(scratch) <= 1

\* C27 witness: in a batch the first document has been added and the second
\* is in buildVideo, in the one scratch directory there is.
BatchIsSequentialWitness ==
  /\ inBatch
  /\ calls[1].pc = "returned"
  /\ calls[2].pc = "ffmpeg"
  /\ scratch = {calls[2].tempDir}

(***************************************************************************)
(* Further claims about chunkText, under SpecChunkFair.                    *)
(***************************************************************************)
CeilDiv(a, b) == (a + b - 1) \div b

\* C30: with 0 <= chunkOverlap < chunkSize every call of chunkText returns,
\* and it returns ceil(len(text) / (chunkSize - chunkOverlap)) chunks.
ChunkTextReturnsCeilChunks ==
  /\ []((ckPc = "returned" /\ 0 <= config.chunkOverlap
                            /\ config.chunkOverlap < config.chunkSize) =>
          Len(ckChunks) = CeilDiv(Len(ckText), Stride))
  /\ ((ckPc = "loop" /\ 0 <= config.chunkOverlap
                      /\ config.chunkOverlap < config.chunkSize)
        ~> (ckPc = "returned"))

\* C30 witness: a call has returned with an overlap, on a text whose length
\* is no multiple of the stride.
ChunkTextReturnsCeilChunksWitness ==
  /\ ckPc = "returned"
  /\ config.chunkOverlap > 0
  /\ config.chunkOverlap < config.chunkSize
  /\ Stride > 1
  /\ Len(ckText) % Stride # 0
  /\ Len(ckChunks) >= 2

====
